---- MODULE Spec2Model ----
(***************************************************************************)
(* Model of validator.py (SWEBenchValidator): the record schema check,     *)
(* the patch syntax check, the single-test runner, the evaluation of one   *)
(* record (run_swebench_evaluation) and validate_data_point.               *)
(*                                                                         *)
(* Abstractions.  A text is kept by the properties the code reads from it: *)
(* a patch is the sequence of its lines, each line by the prefix the code  *)
(* tests; an instance_id or repo value by its Python type and content      *)
(* class; a test-set field by its Python type and, for a string, by what   *)
(* json.loads makes of it.  A subprocess is one of four behaviours (exits  *)
(* 0, exits non-zero, never exits, cannot be started); subprocess.run is   *)
(* modelled by what it does with the behaviour, the timeout and check=.    *)
(*                                                                         *)
(* Three specifications: Spec follows one evaluation of one record;        *)
(* SpecConcurrent follows the directories of several evaluations called    *)
(* at once; SpecReport follows the reduction of an external evaluation     *)
(* report, which validator.py does not implement and which is taken from   *)
(* section 4.6 of the specification.                                       *)
(***************************************************************************)
EXTENDS Integers, Sequences, FiniteSets, TLC

VARIABLES
    file,            \* what open()/json.load find at the path
    data,            \* the record stored in the file
    caller,          \* "direct": run_swebench_evaluation called on its own; "vdp": through validate_data_point
    run_evaluation,  \* validate_data_point's argument
    pc,              \* position of the control flow
    result,          \* run_swebench_evaluation's result dict
    workspace,       \* the TemporaryDirectory: "none", "exists", "removed"
    trace,           \* the blocking operations performed so far, in order
    blocked,         \* TRUE when a subprocess.run call never returns
    escaped,         \* TRUE when an exception left run_swebench_evaluation
    tests,           \* the list the current test loop iterates
    idx,             \* position of the current test loop in tests
    structure_call,  \* outcome of validate_json_structure's call in validate_data_point
    vresult,         \* validate_data_point's result dict
    epc,             \* concurrent evaluations: position of each evaluation
    held,            \* concurrent evaluations: the temp_dir each evaluation holds (0: none)
    owner,           \* the evaluation whose TemporaryDirectory created each directory (0: no such directory)
    files,           \* the files under each directory, each with the evaluation that wrote it last
    foreign,         \* TRUE once an evaluation read or wrote under a directory it does not own
    report,          \* the external evaluation report handed to the reducer
    target,          \* the instance id the report is reduced for
    rpc,             \* position of the report reduction
    rverdict         \* the verdict of the report reduction

\* one evaluation of one record, alone
evars == <<file, data, caller, run_evaluation, pc, result, workspace, trace,
           blocked, escaped, tests, idx, structure_call, vresult>>

\* several evaluations side by side
cvars == <<epc, held, owner, files, foreign>>

\* the reduction of an external report
rvars == <<report, target, rpc, rverdict>>

vars == <<evars, cvars, rvars>>

----------------------------------------------------------------------------
(* Bounds of the model *)

\* longest acceptance list, and longest list in the records that vary the field forms
MaxF2P == 1
\* longest regression list (one more than the sample cap, so the cap cuts)
MaxP2P == 6
\* most required fields a record lacks
MaxMissing == 2
\* evaluations running side by side
MaxEvals == 2
\* longest external report of per-instance entries
MaxEntries == 2

(* Program constants *)

\* the 5 of pass_to_pass[:5]
SampleCap == 5
\* SWEBenchValidator(timeout=300)
DefaultTimeout == 300
\* timeout=60 of the test subprocess
PerTestTimeout == 60

Min(a, b) == IF a < b THEN a ELSE b

----------------------------------------------------------------------------
(* Values *)

\* self.required_fields, in the order of the list
RequiredFields ==
    << "instance_id", "repo", "base_commit", "patch", "test_patch",
       "problem_statement", "hints_text", "created_at", "version",
       "FAIL_TO_PASS", "PASS_TO_PASS" >>

FieldNames == {RequiredFields[i] : i \in DOMAIN RequiredFields}

\* the keys run_swebench_evaluation reads with data[...]
EvalKeys == {"instance_id", "repo", "base_commit", "patch"}

\* Python values of instance_id / repo, by type and content class
FieldValues == {"str_sep", "str_nosep", "str_empty", "int_nonzero", "int_zero", "list"}

IsStr(v) == v \in {"str_sep", "str_nosep", "str_empty"}
Truthy(v) == v \in {"str_sep", "str_nosep", "int_nonzero", "list"}
Iterable(v) == v \in {"str_sep", "str_nosep", "str_empty", "list"}
\* '__' in v, for an iterable v
ContainsSep(v) == v = "str_sep"

TestIds == <<"tests/test_a.py::test_one", "tests.test_b", "tests/test_c.py::test_two">>

TestIdSet == {TestIds[i] : i \in DOMAIN TestIds}

\* the test list of length n in the record's order (identifiers repeat beyond Len(TestIds))
DeclaredTests(n) == [i \in 1..n |-> TestIds[((i - 1) % Len(TestIds)) + 1]]

\* A test-set field: a native list, a JSON string (of a list, of an object whose
\* keys are val, or not JSON at all), or a number.
TestFieldForms == {"list", "json_list", "json_invalid", "json_object", "number"}

TestField(form, val) == [form |-> form, val |-> val]

EmptyMap == [t \in {} |-> {}]

Err(kind, arg) == [kind |-> kind, arg |-> arg]

----------------------------------------------------------------------------
(* validate_json_structure *)

Present(d, f) == f \notin d.missing

RECURSIVE MissingErrors(_, _)
MissingErrors(d, i) ==
    IF i > Len(RequiredFields) THEN <<>>
    ELSE (IF Present(d, RequiredFields[i]) THEN <<>>
          ELSE <<Err("missing_field", RequiredFields[i])>>)
         \o MissingErrors(d, i + 1)

TypeErrors(d) ==
    (IF Present(d, "instance_id") /\ ~IsStr(d.instance_id)
        THEN <<Err("not_a_string", "instance_id")>> ELSE <<>>)
    \o (IF Present(d, "repo") /\ ~IsStr(d.repo)
        THEN <<Err("not_a_string", "repo")>> ELSE <<>>)

\* `not instance_id or '__' not in instance_id`: the `in` raises TypeError on a
\* truthy value that is not iterable
InstanceIdRaises(d) ==
    Present(d, "instance_id") /\ Truthy(d.instance_id) /\ ~Iterable(d.instance_id)

InstanceIdErrors(d) ==
    IF Present(d, "instance_id")
       /\ (~Truthy(d.instance_id) \/ ~ContainsSep(d.instance_id))
    THEN <<Err("bad_instance_id", "instance_id")>> ELSE <<>>

TestFieldErrors(d, f) ==
    IF ~Present(d, f) THEN <<>>
    ELSE LET v == IF f = "FAIL_TO_PASS" THEN d.F2P ELSE d.P2P IN
         CASE v.form = "list" -> <<>>
           [] v.form = "json_list" -> <<>>
           [] v.form = "json_invalid" -> <<Err("invalid_json", f)>>
           [] v.form = "json_object" -> <<Err("not_a_json_list", f)>>
           [] OTHER -> <<Err("not_a_list", f)>>

ValidateJsonStructure(d) ==
    IF InstanceIdRaises(d)
    THEN [raised |-> TRUE, errors |-> <<>>]
    ELSE [raised |-> FALSE,
          errors |-> MissingErrors(d, 1) \o TypeErrors(d) \o InstanceIdErrors(d)
                     \o TestFieldErrors(d, "FAIL_TO_PASS")
                     \o TestFieldErrors(d, "PASS_TO_PASS")]

----------------------------------------------------------------------------
(* validate_patch_format: a patch is the sequence of its lines; a line is
   "diff" (diff --git), "old" (---), "new" (+++), "hunk" (@@), "add" (+),
   "del" (-), "ctx" (any other text) or "blank" (whitespace only).  The
   empty string is <<>>. *)

LineKinds == {"diff", "old", "new", "hunk", "add", "del", "ctx", "blank"}

AnyLine(patch, kinds) == \E i \in DOMAIN patch : patch[i] \in kinds

ValidatePatchFormat(patch) ==
    IF \A i \in DOMAIN patch : patch[i] = "blank"
    THEN <<Err("empty_patch", "")>>
    ELSE (IF AnyLine(patch, {"diff"}) /\ AnyLine(patch, {"old", "new"}) /\ AnyLine(patch, {"hunk"})
          THEN <<>> ELSE <<Err("no_diff_markers", "")>>)
         \o (IF AnyLine(patch, {"add"}) \/ AnyLine(patch, {"del"})
             THEN <<>> ELSE <<Err("no_changes", "")>>)

WellFormedPatch == <<"diff", "old", "new", "hunk", "del", "add">>

\* a diff with a '---' line and no '+++' line
OldMarkerOnlyPatch == <<"diff", "old", "hunk", "del", "add">>

PatchTexts == {<<>>, <<"blank">>, <<"ctx">>, WellFormedPatch, OldMarkerOnlyPatch}

----------------------------------------------------------------------------
(* subprocess.run *)

ProcBehaviours == {"exit0", "nonzero", "hangs", "nospawn"}

\* timeout is {} when the call passes no timeout, {n} otherwise
SubprocessRun(b, timeout, check) ==
    CASE b = "nospawn" -> "OSError"
      [] b = "hangs" -> IF timeout = {} THEN "blocked" ELSE "TimeoutExpired"
      [] b = "nonzero" -> IF check THEN "CalledProcessError" ELSE "completed_nonzero"
      [] OTHER -> "completed_zero"

Event(op, arg, timeout, outcome) ==
    [op |-> op, arg |-> arg, timeout |-> timeout, outcome |-> outcome]

----------------------------------------------------------------------------
(* _run_single_test *)

\* a test process: its behaviour and whether it wrote to stderr
TestProcs ==
    {[b |-> b, stderr |-> s] : b \in {"exit0", "nonzero"}, s \in {"", "stderr"}}
    \cup {[b |-> "hangs", stderr |-> ""], [b |-> "nospawn", stderr |-> ""]}

TestTimeout == {PerTestTimeout}

\* _run_single_test with result['passed'] initialised to True
RunSingleTestDefaultPassed(p) ==
    LET r == SubprocessRun(p.b, TestTimeout, FALSE) IN
    CASE r = "TimeoutExpired" ->
            [passed |-> TRUE, output |-> "", error |-> "timeout_60", timeout |-> TRUE]
      [] r = "OSError" ->
            [passed |-> TRUE, output |-> "", error |-> "launch_error", timeout |-> FALSE]
      [] OTHER ->
            [passed |-> (r = "completed_zero"), output |-> "stdout",
             error |-> p.stderr, timeout |-> FALSE]

RunSingleTest(p) ==
    LET r == SubprocessRun(p.b, TestTimeout, FALSE) IN
    CASE r = "TimeoutExpired" ->
            [passed |-> FALSE, output |-> "", error |-> "timeout_60", timeout |-> TRUE]
      [] r = "OSError" ->
            [passed |-> FALSE, output |-> "", error |-> "launch_error", timeout |-> FALSE]
      [] OTHER ->
            [passed |-> (r = "completed_zero"), output |-> "stdout",
             error |-> p.stderr, timeout |-> FALSE]

TestStatus(p) == SubprocessRun(p.b, TestTimeout, FALSE)

----------------------------------------------------------------------------
(* run_swebench_evaluation: the result dict and the ways out of the try body *)

InitResult ==
    [evaluation_success |-> FALSE, patch_applied |-> FALSE, tests_passed |-> FALSE,
     fail_to_pass_results |-> EmptyMap, pass_to_pass_results |-> EmptyMap,
     errors |-> <<>>, logs |-> <<>>]

Log(r, msg) == [r EXCEPT !.logs = Append(@, msg)]

AddError(r, e) == [r EXCEPT !.errors = Append(@, e)]

\* the exception classes the model raises, all subclasses of Exception
ExceptionClasses ==
    {"OSError", "FileNotFoundError", "JSONDecodeError", "KeyError", "TypeError",
     "CalledProcessError", "TimeoutExpired"}

\* an outer handler for the subprocess errors only
OuterCatchesSubprocess(e) == e \in {"CalledProcessError", "TimeoutExpired"}

\* `except Exception as e` around the whole body
OuterCatches(e) == e \in ExceptionClasses

\* the timeout each subprocess.run call passes
CloneTimeout == {DefaultTimeout}

CheckoutTimeout == {}

ApplyTimeout == {}

\* the except clauses next to each call
CloneHandled == {"CalledProcessError", "TimeoutExpired"}

CheckoutHandled == {"CalledProcessError"}

ApplyHandled == {"CalledProcessError"}

\* TemporaryDirectory.__exit__: the directory is removed when control leaves the with block
LeaveWith(tr) ==
    IF workspace = "exists" THEN Append(tr, Event("cleanup", "", {}, "ok")) ELSE tr

Released == IF workspace = "exists" THEN "removed" ELSE workspace

\* the body goes on to the next stage
Continue(r, tr, next) ==
    /\ result' = r
    /\ trace' = tr
    /\ pc' = next
    /\ UNCHANGED <<workspace, blocked, escaped>>

\* `return result` inside the with block
Return(r, tr) ==
    /\ result' = r
    /\ trace' = LeaveWith(tr)
    /\ workspace' = Released
    /\ pc' = "returned"
    /\ UNCHANGED <<blocked, escaped>>

\* Throw with a directory that is removed only at the end of the body
ThrowLeak(r, e, tr) ==
    /\ trace' = tr
    /\ result' = IF OuterCatches(e) THEN AddError(r, Err("unexpected", e)) ELSE r
    /\ pc' = IF OuterCatches(e) THEN "returned" ELSE "raised"
    /\ escaped' = (escaped \/ ~OuterCatches(e))
    /\ UNCHANGED <<workspace, blocked>>

\* an exception leaves the try body: the with block is left, then the outer handler
\* appends the error and the function returns result
Throw(r, e, tr) ==
    /\ trace' = LeaveWith(tr)
    /\ workspace' = Released
    /\ result' = IF OuterCatches(e) THEN AddError(r, Err("unexpected", e)) ELSE r
    /\ pc' = IF OuterCatches(e) THEN "returned" ELSE "raised"
    /\ escaped' = (escaped \/ ~OuterCatches(e))
    /\ UNCHANGED blocked

\* subprocess.run never returns
Block(r, tr) ==
    /\ result' = r
    /\ trace' = tr
    /\ blocked' = TRUE
    /\ UNCHANGED <<pc, workspace, escaped>>

\* AfterCall with the errors.append of the except clauses left out
AfterCallSilent(r, tr, o, handled, errkind, rOk, next) ==
    IF o = "completed_zero" THEN Continue(rOk, tr, next)
    ELSE IF o = "blocked" THEN Block(r, tr)
    ELSE IF o \in handled THEN Return(r, tr)
    ELSE Throw(r, o, tr)

\* AfterCall with the `return result` of the except clauses left out
AfterCallNoReturn(r, tr, o, handled, errkind, rOk, next) ==
    IF o = "completed_zero" THEN Continue(rOk, tr, next)
    ELSE IF o = "blocked" THEN Block(r, tr)
    ELSE IF o \in handled THEN Continue(AddError(r, Err(errkind, o)), tr, next)
    ELSE Throw(r, o, tr)

\* what follows a subprocess.run(check=True) call with outcome o
AfterCall(r, tr, o, handled, errkind, rOk, next) ==
    IF o = "completed_zero" THEN Continue(rOk, tr, next)
    ELSE IF o = "blocked" THEN Block(r, tr)
    ELSE IF o \in handled THEN Return(AddError(r, Err(errkind, o)), tr)
    ELSE Throw(r, o, tr)

\* open, json.load, the four data[...] reads, and TemporaryDirectory()
EvalStart ==
    /\ pc = "start" /\ ~blocked
    /\ LET r0 == InitResult
           tr0 == Append(trace, Event("open", "", {}, file)) IN
       IF file = "missing" THEN Throw(r0, "FileNotFoundError", tr0)
       ELSE IF file = "badjson" THEN Throw(r0, "JSONDecodeError", tr0)
       ELSE IF EvalKeys \cap data.missing # {}
            THEN Throw(r0, "KeyError", Append(tr0, Event("read_keys", "", {}, "KeyError")))
       ELSE \E m \in {"ok", "OSError"} :
              LET r1 == Log(r0, "start")
                  tr1 == Append(tr0, Event("mkdtemp", "", {}, m)) IN
              IF m = "OSError" THEN Throw(r1, "OSError", tr1)
              ELSE /\ result' = r1
                   /\ trace' = tr1
                   /\ workspace' = "exists"
                   /\ pc' = "clone"
                   /\ UNCHANGED <<blocked, escaped>>
    /\ UNCHANGED <<cvars, rvars, file, data, caller, run_evaluation, tests, idx, structure_call, vresult>>

\* git clone
Clone ==
    /\ pc = "clone" /\ ~blocked
    /\ \E b \in ProcBehaviours :
         LET r0 == Log(result, "clone")
             o == SubprocessRun(b, CloneTimeout, TRUE)
             tr == Append(trace, Event("clone", "", CloneTimeout, o)) IN
         AfterCall(r0, tr, o, CloneHandled, "clone_failed", r0, "checkout")
    /\ UNCHANGED <<cvars, rvars, file, data, caller, run_evaluation, tests, idx, structure_call, vresult>>

\* git checkout base_commit
Checkout ==
    /\ pc = "checkout" /\ ~blocked
    /\ \E b \in ProcBehaviours :
         LET r0 == Log(result, "checkout")
             o == SubprocessRun(b, CheckoutTimeout, TRUE)
             tr == Append(trace, Event("checkout", "", CheckoutTimeout, o)) IN
         AfterCall(r0, tr, o, CheckoutHandled, "checkout_failed", r0, "check_main")
    /\ UNCHANGED <<cvars, rvars, file, data, caller, run_evaluation, tests, idx, structure_call, vresult>>

\* main.patch is written, then git apply --check
CheckMainPatch ==
    /\ pc = "check_main" /\ ~blocked
    /\ \E w \in {"ok", "OSError"}, b \in ProcBehaviours :
         LET r0 == Log(result, "apply_main")
             tr0 == Append(trace, Event("write", "main", {}, w))
             o == SubprocessRun(b, ApplyTimeout, TRUE)
             tr == Append(tr0, Event("apply_check", "main", ApplyTimeout, o)) IN
         IF w = "OSError" THEN Throw(r0, "OSError", tr0)
         ELSE AfterCall(r0, tr, o, ApplyHandled, "patch_failed", r0, "apply_main")
    /\ UNCHANGED <<cvars, rvars, file, data, caller, run_evaluation, tests, idx, structure_call, vresult>>

\* git apply of the main patch, then patch_applied = True
ApplyMainPatch ==
    /\ pc = "apply_main" /\ ~blocked
    /\ \E b \in ProcBehaviours :
         LET o == SubprocessRun(b, ApplyTimeout, TRUE)
             tr == Append(trace, Event("apply", "main", ApplyTimeout, o))
             rOk == Log([result EXCEPT !.patch_applied = TRUE], "main_applied") IN
         AfterCall(result, tr, o, ApplyHandled, "patch_failed", rOk, "test_patch")
    /\ UNCHANGED <<cvars, rvars, file, data, caller, run_evaluation, tests, idx, structure_call, vresult>>

\* data.get('test_patch') is truthy
HasTestPatch(d) == Present(d, "test_patch") /\ d.test_patch # <<>>

\* test.patch is written and applied with git apply, when the record has a test patch
ApplyTestPatch ==
    /\ pc = "test_patch" /\ ~blocked
    /\ IF HasTestPatch(data)
       THEN \E w \in {"ok", "OSError"}, b \in ProcBehaviours :
              LET r0 == Log(result, "apply_test")
                  tr0 == Append(trace, Event("write", "test", {}, w))
                  o == SubprocessRun(b, ApplyTimeout, TRUE)
                  tr == Append(tr0, Event("apply", "test", ApplyTimeout, o)) IN
              IF w = "OSError" THEN Throw(r0, "OSError", tr0)
              ELSE AfterCall(r0, tr, o, ApplyHandled, "test_patch_failed",
                             Log(r0, "test_applied"), "f2p_load")
       ELSE Continue(result, trace, "f2p_load")
    /\ UNCHANGED <<cvars, rvars, file, data, caller, run_evaluation, tests, idx, structure_call, vresult>>

\* what data.get(f, '[]') followed by json.loads (for a string) yields:
\* an exception, or a Python list, dict (val: its keys) or number
LoadTestField(d, f) ==
    LET v == IF ~Present(d, f) THEN TestField("json_list", <<>>)
             ELSE IF f = "FAIL_TO_PASS" THEN d.F2P ELSE d.P2P IN
    CASE v.form = "json_invalid" -> [exc |-> "JSONDecodeError", type |-> "none", val |-> <<>>]
      [] v.form = "json_object" -> [exc |-> "", type |-> "dict", val |-> v.val]
      [] v.form = "number" -> [exc |-> "", type |-> "number", val |-> <<>>]
      [] OTHER -> [exc |-> "", type |-> "list", val |-> v.val]

\* `if fail_to_pass:` / `if pass_to_pass:`
TruthyTests(l) == l.type = "number" \/ l.val # <<>>

\* FAIL_TO_PASS is read; a non-empty value starts the acceptance loop
LoadFailToPass ==
    /\ pc = "f2p_load" /\ ~blocked
    /\ LET l == LoadTestField(data, "FAIL_TO_PASS") IN
       IF l.exc # ""
       THEN /\ Throw(result, l.exc, Append(trace, Event("load_tests", "FAIL_TO_PASS", {}, l.exc)))
            /\ UNCHANGED <<tests, idx>>
       ELSE IF ~TruthyTests(l)
            THEN Continue(result, trace, "p2p_load") /\ UNCHANGED <<tests, idx>>
       ELSE IF l.type = "number"
            THEN /\ Throw(result, "TypeError",
                          Append(trace, Event("load_tests", "FAIL_TO_PASS", {}, "TypeError")))
                 /\ UNCHANGED <<tests, idx>>
       ELSE /\ Continue(Log(result, "run_f2p"), trace, "f2p_run")
            /\ tests' = l.val
            /\ idx' = 1
    /\ UNCHANGED <<cvars, rvars, file, data, caller, run_evaluation, structure_call, vresult>>

\* one iteration of `for test in fail_to_pass`
RunFailToPass ==
    /\ pc = "f2p_run" /\ ~blocked
    /\ \E p \in TestProcs :
         LET test == tests[idx]
             test_result == RunSingleTest(p)
             r0 == [result EXCEPT !.fail_to_pass_results = (test :> test_result) @@ @]
             r1 == IF test_result.passed THEN r0
                   ELSE AddError(r0, Err("f2p_failed", test))
             tr == Append(trace, Event("test_f2p", test, TestTimeout, TestStatus(p))) IN
         Continue(r1, tr, IF idx = Len(tests) THEN "p2p_load" ELSE "f2p_run")
    /\ idx' = idx + 1
    /\ UNCHANGED <<cvars, rvars, file, data, caller, run_evaluation, tests, structure_call, vresult>>

\* pass_to_pass[-5:]
SampleTestsLast(l) == SubSeq(l, Len(l) - Min(Len(l), SampleCap) + 1, Len(l))

\* pass_to_pass[:5]
SampleTests(l) == SubSeq(l, 1, Min(Len(l), SampleCap))

\* PASS_TO_PASS is read; a non-empty value is sampled and starts the regression loop
LoadPassToPass ==
    /\ pc = "p2p_load" /\ ~blocked
    /\ LET l == LoadTestField(data, "PASS_TO_PASS") IN
       IF l.exc # ""
       THEN /\ Throw(result, l.exc, Append(trace, Event("load_tests", "PASS_TO_PASS", {}, l.exc)))
            /\ UNCHANGED <<tests, idx>>
       ELSE IF ~TruthyTests(l)
            THEN Continue(result, trace, "reduce") /\ UNCHANGED <<tests, idx>>
       ELSE IF l.type # "list"
            THEN /\ Throw(result, "TypeError",
                          Append(trace, Event("load_tests", "PASS_TO_PASS", {}, "TypeError")))
                 /\ UNCHANGED <<tests, idx>>
       ELSE /\ Continue(Log(result, "run_p2p"), trace, "p2p_run")
            /\ tests' = SampleTests(l.val)
            /\ idx' = 1
    /\ UNCHANGED <<cvars, rvars, file, data, caller, run_evaluation, structure_call, vresult>>

\* the regression loop with a test runner that lets TimeoutExpired and launch
\* errors through
RunPassToPassAbort ==
    /\ pc = "p2p_run" /\ ~blocked
    /\ \E p \in TestProcs :
         LET test == tests[idx]
             test_result == RunSingleTest(p)
             r0 == [result EXCEPT !.pass_to_pass_results = (test :> test_result) @@ @]
             r1 == IF test_result.passed THEN r0
                   ELSE AddError(r0, Err("p2p_failed", test))
             tr == Append(trace, Event("test_p2p", test, TestTimeout, TestStatus(p))) IN
         IF TestStatus(p) \in {"TimeoutExpired", "OSError"}
         THEN Throw(result, TestStatus(p), tr)
         ELSE Continue(r1, tr, IF idx = Len(tests) THEN "reduce" ELSE "p2p_run")
    /\ idx' = idx + 1
    /\ UNCHANGED <<cvars, rvars, file, data, caller, run_evaluation, tests, structure_call, vresult>>

\* one iteration of `for test in sample_tests`
RunPassToPass ==
    /\ pc = "p2p_run" /\ ~blocked
    /\ \E p \in TestProcs :
         LET test == tests[idx]
             test_result == RunSingleTest(p)
             r0 == [result EXCEPT !.pass_to_pass_results = (test :> test_result) @@ @]
             r1 == IF test_result.passed THEN r0
                   ELSE AddError(r0, Err("p2p_failed", test))
             tr == Append(trace, Event("test_p2p", test, TestTimeout, TestStatus(p))) IN
         Continue(r1, tr, IF idx = Len(tests) THEN "reduce" ELSE "p2p_run")
    /\ idx' = idx + 1
    /\ UNCHANGED <<cvars, rvars, file, data, caller, run_evaluation, tests, structure_call, vresult>>

\* all(tr['passed'] for tr in m.values())
AllPassed(m) == \A t \in DOMAIN m : m[t].passed

\* tests_passed from the acceptance results alone
TestsPassedAcceptanceOnly(r) == AllPassed(r.fail_to_pass_results)

\* tests_passed of the reduction
TestsPassed(r) == AllPassed(r.fail_to_pass_results) /\ AllPassed(r.pass_to_pass_results)

\* the reduction with evaluation_success computed from the two flags alone
ReduceIgnoringErrors ==
    /\ pc = "reduce" /\ ~blocked
    /\ LET r0 == [result EXCEPT !.tests_passed = TestsPassed(result)]
           r1 == [r0 EXCEPT !.evaluation_success = (r0.patch_applied /\ r0.tests_passed)]
           r2 == Log(r1, IF r1.evaluation_success THEN "validation_passed"
                                                  ELSE "validation_failed") IN
       Return(r2, trace)
    /\ UNCHANGED <<cvars, rvars, file, data, caller, run_evaluation, tests, idx, structure_call, vresult>>

\* the overall result is computed, the with block is left and result returned
Reduce ==
    /\ pc = "reduce" /\ ~blocked
    /\ LET r0 == [result EXCEPT !.tests_passed = TestsPassed(result)]
           r1 == [r0 EXCEPT !.evaluation_success =
                      (r0.patch_applied /\ r0.tests_passed /\ Len(r0.errors) = 0)]
           r2 == Log(r1, IF r1.evaluation_success THEN "validation_passed"
                                                  ELSE "validation_failed") IN
       Return(r2, trace)
    /\ UNCHANGED <<cvars, rvars, file, data, caller, run_evaluation, tests, idx, structure_call, vresult>>

----------------------------------------------------------------------------
(* validate_data_point *)

InitVResult ==
    [valid |-> TRUE, errors |-> <<>>, structure_valid |-> TRUE, evaluated |-> FALSE]

NoCall == [raised |-> FALSE, errors |-> <<>>]

\* [f"test_patch: {err}" for err in test_patch_errors]
Prefixed(errs) == [i \in DOMAIN errs |-> Err(errs[i].kind, "test_patch")]

PatchErrors(d) ==
    (IF Present(d, "patch") THEN ValidatePatchFormat(d.patch) ELSE <<>>)
    \o (IF HasTestPatch(d) THEN Prefixed(ValidatePatchFormat(d.test_patch)) ELSE <<>>)

\* the file is read and the record checked; the evaluation is called when
\* run_evaluation holds and the structure is valid
VdpValidate ==
    /\ pc = "vdp_start"
    /\ IF file = "missing"
       THEN /\ vresult' = [vresult EXCEPT !.errors = Append(@, Err("file_not_found", "")),
                                          !.valid = FALSE]
            /\ pc' = "vdp_done"
            /\ UNCHANGED structure_call
       ELSE IF file = "badjson"
       THEN /\ vresult' = [vresult EXCEPT !.errors = Append(@, Err("bad_json", "")),
                                          !.valid = FALSE, !.structure_valid = FALSE]
            /\ pc' = "vdp_done"
            /\ UNCHANGED structure_call
       ELSE LET s == ValidateJsonStructure(data) IN
            /\ structure_call' = s
            /\ IF s.raised
               THEN /\ vresult' = [vresult EXCEPT
                                     !.errors = Append(@, Err("unexpected", "TypeError")),
                                     !.valid = FALSE]
                    /\ pc' = "vdp_done"
               ELSE LET errs == s.errors \o PatchErrors(data)
                        ok == Len(s.errors) = 0 IN
                    IF run_evaluation /\ ok
                    THEN /\ vresult' = [vresult EXCEPT !.errors = errs,
                                                       !.structure_valid = ok]
                         /\ pc' = "start"
                    ELSE /\ vresult' = [vresult EXCEPT !.errors = errs,
                                                       !.structure_valid = ok,
                                                       !.valid = (Len(errs) = 0)]
                         /\ pc' = "vdp_done"
    /\ UNCHANGED <<cvars, rvars, file, data, caller, run_evaluation, result, workspace, trace,
                   blocked, escaped, tests, idx>>

\* the return of the evaluation with the errors of the verdict replacing the
\* errors collected before it
VdpFinishVerdictOnly ==
    /\ pc = "returned" /\ caller = "vdp"
    /\ LET errs == IF result.evaluation_success THEN <<>> ELSE result.errors IN
       vresult' = [vresult EXCEPT !.evaluated = TRUE, !.errors = errs,
                                  !.valid = (Len(errs) = 0)]
    /\ pc' = "vdp_done"
    /\ UNCHANGED <<cvars, rvars, file, data, caller, run_evaluation, result, workspace, trace,
                   blocked, escaped, tests, idx, structure_call>>

\* the return of the evaluation without taking over the errors of the verdict
VdpFinishKeepErrors ==
    /\ pc = "returned" /\ caller = "vdp"
    /\ LET errs == vresult.errors IN
       vresult' = [vresult EXCEPT !.evaluated = TRUE, !.errors = errs,
                                  !.valid = (Len(errs) = 0)]
    /\ pc' = "vdp_done"
    /\ UNCHANGED <<cvars, rvars, file, data, caller, run_evaluation, result, workspace, trace,
                   blocked, escaped, tests, idx, structure_call>>

\* run_swebench_evaluation has returned to validate_data_point
VdpFinish ==
    /\ pc = "returned" /\ caller = "vdp"
    /\ LET errs == IF result.evaluation_success THEN vresult.errors
                   ELSE vresult.errors \o result.errors IN
       vresult' = [vresult EXCEPT !.evaluated = TRUE, !.errors = errs,
                                  !.valid = (Len(errs) = 0)]
    /\ pc' = "vdp_done"
    /\ UNCHANGED <<cvars, rvars, file, data, caller, run_evaluation, result, workspace, trace,
                   blocked, escaped, tests, idx, structure_call>>

----------------------------------------------------------------------------
(* The records and calls the model starts from *)

Record(missing, instance_id, repo, patch, test_patch, f2p, p2p) ==
    [missing |-> missing, instance_id |-> instance_id, repo |-> repo, patch |-> patch,
     test_patch |-> test_patch, F2P |-> f2p, P2P |-> p2p]

ListOf(n) == TestField("list", DeclaredTests(n))

\* the values of a test-set field, lists of up to n tests
TestFieldValues(n) ==
    {TestField(form, DeclaredTests(k)) : form \in {"list", "json_list", "json_object"},
                                         k \in 0..n}
    \cup {TestField("json_invalid", <<>>), TestField("number", <<>>)}

\* records that lack one key, with and without a test patch
KeyRecords ==
    {Record(m, "str_sep", "str_nosep", WellFormedPatch, tp, ListOf(1), ListOf(1)) :
        m \in {{}} \cup {{k} : k \in {"instance_id", "patch", "test_patch",
                                      "FAIL_TO_PASS", "PASS_TO_PASS"}},
        tp \in {<<>>, WellFormedPatch}}

\* records that vary the form of the two test-set fields
FormRecords ==
    {Record({}, "str_sep", "str_nosep", WellFormedPatch, WellFormedPatch, f, p) :
        f \in TestFieldValues(MaxF2P), p \in TestFieldValues(MaxF2P)}

\* records with regression lists up to and beyond the sample cap
LongRecords ==
    {Record({}, "str_sep", "str_nosep", WellFormedPatch, <<>>, ListOf(0),
            TestField(form, DeclaredTests(n))) :
        form \in {"list", "json_list"}, n \in 0..MaxP2P}

\* the record of the end-to-end scenario: one acceptance test, two other
\* regression tests, with and without a test patch
ScenarioRecords ==
    {Record({}, "str_sep", "str_nosep", WellFormedPatch, tp,
            TestField("list", <<TestIds[1]>>), TestField("list", <<TestIds[2], TestIds[3]>>)) :
        tp \in {<<>>, WellFormedPatch}}

\* records that vary the schema: missing fields, instance_id and repo values
SchemaRecords ==
    {Record(m, i, r, WellFormedPatch, <<>>, ListOf(1), ListOf(0)) :
        m \in {x \in SUBSET FieldNames : Cardinality(x) <= MaxMissing},
        i \in FieldValues, r \in {"str_nosep", "int_nonzero"}}

\* schema-valid records that vary the two patch texts and the acceptance field
PatchRecords ==
    {Record({}, "str_sep", "str_nosep", p, tp, f, ListOf(0)) :
        p \in PatchTexts, tp \in PatchTexts, f \in TestFieldValues(MaxF2P)}

----------------------------------------------------------------------------
(* Evaluations side by side.  run_swebench_evaluation keeps its verdict, errors
   and logs in the local dict `result` and reads self.timeout only; what
   evaluations could share is the file tree, so the model follows the
   directories: which exist, who created them, who holds them, who wrote what. *)

Evals == 1..MaxEvals

\* the names the temporary-directory root has room for
DirNames == 1..(MaxEvals + 1)

ConcurrentIdle ==
    /\ epc = [e \in Evals |-> "idle"]
    /\ held = [e \in Evals |-> 0]
    /\ owner = [d \in DirNames |-> 0]
    /\ files = [d \in DirNames |-> {}]
    /\ foreign = FALSE

\* a directory named by a fixed path instead of a fresh name
MkdtempFixedName(o) == {1}

\* tempfile.TemporaryDirectory(): mkdtemp creates a directory that did not exist
MkdtempNames(o) == {d \in DirNames : o[d] = 0}

\* evaluation e writes the file or tree `name` under its temp_dir
WriteUnder(e, name) ==
    /\ files' = [files EXCEPT ![held[e]] =
                    {f \in @ : f.name # name} \cup {[name |-> name, by |-> e]}]
    /\ foreign' = (foreign \/ owner[held[e]] # e)

\* result = {...}; open(data_point_path); json.load: a failure is caught and returned
CStart(e) ==
    /\ epc[e] = "idle"
    /\ \E ok \in BOOLEAN : epc' = [epc EXCEPT ![e] = IF ok THEN "mkdtemp" ELSE "returned"]
    /\ UNCHANGED <<held, owner, files, foreign, evars, rvars>>

\* with tempfile.TemporaryDirectory() as temp_dir
CMkdtemp(e) ==
    /\ epc[e] = "mkdtemp"
    /\ \E d \in MkdtempNames(owner) :
         /\ owner' = [owner EXCEPT ![d] = e]
         /\ held' = [held EXCEPT ![e] = d]
    /\ epc' = [epc EXCEPT ![e] = "clone"]
    /\ UNCHANGED <<files, foreign, evars, rvars>>

\* git clone into temp_dir/repo (cwd=temp_dir), then git checkout (cwd=repo_dir)
CClone(e) ==
    /\ epc[e] = "clone"
    /\ WriteUnder(e, "repo")
    /\ \E ok \in BOOLEAN : epc' = [epc EXCEPT ![e] = IF ok THEN "main_patch" ELSE "release"]
    /\ UNCHANGED <<held, owner, evars, rvars>>

\* temp_dir/main.patch is written and applied in repo_dir
CMainPatch(e) ==
    /\ epc[e] = "main_patch"
    /\ WriteUnder(e, "main.patch")
    /\ \E ok \in BOOLEAN : epc' = [epc EXCEPT ![e] = IF ok THEN "test_patch" ELSE "release"]
    /\ UNCHANGED <<held, owner, evars, rvars>>

\* temp_dir/test.patch is written and applied in repo_dir
CTestPatch(e) ==
    /\ epc[e] = "test_patch"
    /\ WriteUnder(e, "test.patch")
    /\ \E ok \in BOOLEAN : epc' = [epc EXCEPT ![e] = IF ok THEN "tests" ELSE "release"]
    /\ UNCHANGED <<held, owner, evars, rvars>>

\* the test processes run with cwd=repo_dir and read the tree
CRunTests(e) ==
    /\ epc[e] = "tests"
    /\ foreign' = (foreign \/ owner[held[e]] # e)
    /\ epc' = [epc EXCEPT ![e] = "release"]
    /\ UNCHANGED <<held, owner, files, evars, rvars>>

\* the with block is left: the directory and everything under it is removed
CRelease(e) ==
    /\ epc[e] = "release"
    /\ owner' = [owner EXCEPT ![held[e]] = 0]
    /\ files' = [files EXCEPT ![held[e]] = {}]
    /\ held' = [held EXCEPT ![e] = 0]
    /\ epc' = [epc EXCEPT ![e] = "returned"]
    /\ UNCHANGED <<foreign, evars, rvars>>

----------------------------------------------------------------------------
(* The reduction of an external evaluation report (specification, 4.6 Result
   Reducer).  A report is kept by its shape: (a) an object with the three id
   lists, (b) a sequence of per-instance entries, or anything else. *)

InstanceIds == {"X", "Y"}

\* the acceptance test the record declares, looked up in an entry's test_results
DeclaredReportTest == TestIds[1]

\* shape (a); no instance is listed both as resolved and as in error
IdsReports ==
    {rep \in [shape : {"ids"}, resolved_ids : SUBSET InstanceIds,
              error_ids : SUBSET InstanceIds, completed_ids : SUBSET InstanceIds] :
        rep.resolved_ids \cap rep.error_ids = {}}

\* test_results of an entry: absent, or the declared test's status as an object
\* or as a bare string
TestResultsValues ==
    {[form |-> "absent", status |-> ""], [form |-> "object", status |-> "PASSED"],
     [form |-> "bare", status |-> "PASSED"], [form |-> "bare", status |-> "FAILED"]}

ReportEntries ==
    [instance_id : InstanceIds, patch_applied : BOOLEAN, resolved : BOOLEAN,
     test_results : TestResultsValues]

\* shape (b): a sequence of up to MaxEntries entries
EntriesReports ==
    {[shape |-> "entries", entries |-> es] :
        es \in UNION {[1..k -> ReportEntries] : k \in 0..MaxEntries}}

\* neither shape: an object without the id lists, a scalar
OtherReports == {[shape |-> "object_other"], [shape |-> "scalar"]}

Verdict(applied, resolved, errors) ==
    [patch_applied |-> applied, tests_resolved |-> resolved, errors |-> errors]

NoVerdict == Verdict(FALSE, FALSE, <<>>)

ReportIdle ==
    /\ report = [shape |-> "none"]
    /\ target = "X"
    /\ rpc = "idle"
    /\ rverdict = NoVerdict

\* membership tested with completed_ids first
ClassifyIdsCompletedFirst(rep, id) ==
    IF id \in rep.completed_ids THEN "completed"
    ELSE IF id \in rep.resolved_ids THEN "resolved"
    ELSE IF id \in rep.error_ids THEN "error"
    ELSE "not_found"

\* shape (a): resolved_ids, then error_ids, then completed_ids only, else absent
ClassifyIds(rep, id) ==
    IF id \in rep.resolved_ids THEN "resolved"
    ELSE IF id \in rep.error_ids THEN "error"
    ELSE IF id \in rep.completed_ids THEN "completed"
    ELSE "not_found"

\* shape (b): the entry of the target; "PASSED" is passed, anything else failed,
\* one error line per failing test
ReduceEntries(rep, id) ==
    LET found == {i \in DOMAIN rep.entries : rep.entries[i].instance_id = id} IN
    IF found = {} THEN {Verdict(FALSE, FALSE, <<Err("instance_not_found", id)>>)}
    ELSE LET e == rep.entries[CHOOSE i \in found : \A j \in found : i <= j] IN
         {Verdict(e.patch_applied, e.resolved,
                  IF e.test_results.status = "PASSED" THEN <<>>
                  ELSE <<Err("report_test_failed", DeclaredReportTest)>>)}

\* the verdicts the reducer may give; where the specification does not say
\* whether applied-but-not-resolved carries an error line, both are allowed
ReduceReport(rep, id) ==
    IF rep.shape = "ids"
    THEN CASE ClassifyIds(rep, id) = "resolved" -> {Verdict(TRUE, TRUE, <<>>)}
           [] ClassifyIds(rep, id) = "error" ->
                 {Verdict(FALSE, FALSE, <<Err("patch_not_applied", id)>>)}
           [] ClassifyIds(rep, id) = "completed" ->
                 {Verdict(TRUE, FALSE, errs) : errs \in {<<>>, <<Err("not_resolved", id)>>}}
           [] OTHER -> {Verdict(FALSE, FALSE, <<Err("instance_not_found", id)>>)}
    ELSE IF rep.shape = "entries" THEN ReduceEntries(rep, id)
    ELSE {Verdict(FALSE, FALSE, <<Err("unrecognized_report_format", "")>>)}

\* the report is reduced for the target
ReduceReportStep ==
    /\ rpc = "loaded"
    /\ rverdict' \in ReduceReport(report, target)
    /\ rpc' = "reduced"
    /\ UNCHANGED <<report, target, evars, cvars>>

\* the same report is reduced once more for the same target
ReduceReportAgain ==
    /\ rpc = "reduced"
    /\ rverdict' \in ReduceReport(report, target)
    /\ rpc' = "reduced_again"
    /\ UNCHANGED <<report, target, evars, cvars>>

----------------------------------------------------------------------------
(* The specifications *)

Init ==
    /\ \/ /\ caller = "direct"
          /\ run_evaluation = TRUE
          /\ \/ /\ file = "ok"
                /\ data \in KeyRecords \cup FormRecords \cup LongRecords \cup ScenarioRecords
             \/ file \in {"missing", "badjson"} /\ data \in FormRecords
                /\ data.F2P = ListOf(0) /\ data.P2P = ListOf(0)
       \/ /\ caller = "vdp"
          /\ run_evaluation \in BOOLEAN
          /\ \/ file = "ok" /\ data \in SchemaRecords \cup PatchRecords
             \/ file \in {"missing", "badjson"} /\ data \in FormRecords
                /\ data.F2P = ListOf(0) /\ data.P2P = ListOf(0)
    /\ ConcurrentIdle /\ ReportIdle
    /\ pc = IF caller = "vdp" THEN "vdp_start" ELSE "start"
    /\ result = InitResult
    /\ workspace = "none"
    /\ trace = <<>>
    /\ blocked = FALSE
    /\ escaped = FALSE
    /\ tests = <<>>
    /\ idx = 0
    /\ structure_call = NoCall
    /\ vresult = InitVResult

Next ==
    \/ EvalStart
    \/ Clone
    \/ Checkout
    \/ CheckMainPatch
    \/ ApplyMainPatch
    \/ ApplyTestPatch
    \/ LoadFailToPass
    \/ RunFailToPass
    \/ LoadPassToPass
    \/ RunPassToPass
    \/ Reduce
    \/ VdpValidate
    \/ VdpFinish

Spec == Init /\ [][Next]_vars

\* no single evaluation is under way
EvalIdle ==
    /\ file = "ok"
    /\ data = Record({}, "str_sep", "str_nosep", WellFormedPatch, <<>>, ListOf(0), ListOf(0))
    /\ caller = "direct"
    /\ run_evaluation = TRUE
    /\ pc = "idle"
    /\ result = InitResult
    /\ workspace = "none"
    /\ trace = <<>>
    /\ blocked = FALSE
    /\ escaped = FALSE
    /\ tests = <<>>
    /\ idx = 0
    /\ structure_call = NoCall
    /\ vresult = InitVResult

\* MaxEvals evaluations called at once, each on a thread of its own
InitConcurrent == EvalIdle /\ ConcurrentIdle /\ ReportIdle

NextConcurrent ==
    \/ \E e \in Evals : CStart(e)
    \/ \E e \in Evals : CMkdtemp(e)
    \/ \E e \in Evals : CClone(e)
    \/ \E e \in Evals : CMainPatch(e)
    \/ \E e \in Evals : CTestPatch(e)
    \/ \E e \in Evals : CRunTests(e)
    \/ \E e \in Evals : CRelease(e)

SpecConcurrent == InitConcurrent /\ [][NextConcurrent]_vars

\* a report and a target instance id are handed to the reducer
InitReport ==
    /\ EvalIdle /\ ConcurrentIdle
    /\ report \in IdsReports \cup EntriesReports \cup OtherReports
    /\ target \in InstanceIds
    /\ rpc = "loaded"
    /\ rverdict = NoVerdict

NextReport ==
    \/ ReduceReportStep
    \/ ReduceReportAgain

SpecReport == InitReport /\ [][NextReport]_vars

----------------------------------------------------------------------------
(* What the properties read *)

\* run_swebench_evaluation has returned its verdict (result)
Returned == pc = "returned" \/ (pc = "vdp_done" /\ vresult.evaluated)

\* the run went through the reduction (step 8), which logs the overall outcome
ReachedReduction ==
    /\ result.logs # <<>>
    /\ result.logs[Len(result.logs)] \in {"validation_passed", "validation_failed"}

TestOps == {"test_f2p", "test_p2p"}

StageOps == {"clone", "checkout", "write", "apply_check", "apply"}

OkOutcomes == {"ok", "completed_zero"}

Positions(ops) == {i \in DOMAIN trace : trace[i].op \in ops}

MapEntriesPassed(r) ==
    /\ \A t \in DOMAIN r.fail_to_pass_results : r.fail_to_pass_results[t].passed
    /\ \A t \in DOMAIN r.pass_to_pass_results : r.pass_to_pass_results[t].passed

----------------------------------------------------------------------------
(* The properties *)

\* C1: a verdict with patch_applied = false has tests_passed = false and a
\* non-empty errors list, and while patch_applied is false no test has been run.
C1_NoPatchNoTests ==
    /\ ~result.patch_applied => Positions(TestOps) = {}
    /\ (Returned /\ ~result.patch_applied) =>
          (~result.tests_passed /\ Len(result.errors) > 0)

\* C1 (witness): a run returns after the dry-run of the main patch failed.
C1_Witness ==
    /\ Returned /\ ~result.patch_applied
    /\ \E i \in DOMAIN trace :
         /\ trace[i].op = "apply_check" /\ trace[i].arg = "main"
         /\ trace[i].outcome = "CalledProcessError"

\* C2 (as stated): in every returned verdict tests_passed holds iff every entry
\* of both result maps has passed = true.
C2_Original == Returned => (result.tests_passed <=> MapEntriesPassed(result))

\* C2 (amended): in every returned verdict tests_passed implies that every entry
\* of both maps passed; the converse holds in the runs that reached the
\* reduction, and in every other run tests_passed is false.
C2_Amended ==
    Returned =>
        /\ result.tests_passed => MapEntriesPassed(result)
        /\ ReachedReduction => (result.tests_passed <=> MapEntriesPassed(result))
        /\ ~ReachedReduction => ~result.tests_passed

\* C2 (witness): a reduced verdict whose acceptance entries all passed and whose
\* regression map has a failed entry.
C2_Witness ==
    /\ Returned /\ ReachedReduction /\ ~result.tests_passed
    /\ DOMAIN result.fail_to_pass_results # {}
    /\ \A t \in DOMAIN result.fail_to_pass_results : result.fail_to_pass_results[t].passed
    /\ \E t \in DOMAIN result.pass_to_pass_results : ~result.pass_to_pass_results[t].passed

\* a stage of the run failed: its command exited non-zero or, with a timeout, timed out
FailedAt(i) ==
    /\ trace[i].op \in StageOps
    /\ trace[i].outcome \in {"CalledProcessError", "TimeoutExpired"}

\* the error line of each stage
StageError(e) ==
    CASE e.op = "clone" -> "clone_failed"
      [] e.op = "checkout" -> "checkout_failed"
      [] e.arg = "test" -> "test_patch_failed"
      [] OTHER -> "patch_failed"

\* after the failure at i the run went straight to the verdict, with the stage's
\* error as the only error and tests_passed false
StraightToVerdict(i) ==
    /\ \A j \in DOMAIN trace : j > i => trace[j].op = "cleanup"
    /\ result.errors = <<Err(StageError(trace[i]), trace[i].outcome)>>
    /\ ~result.tests_passed
    /\ ~result.evaluation_success

\* C3 (as stated): after a failed stage (clone, checkout, main patch, test
\* patch) the verdict has patch_applied and tests_passed false, the stage's
\* error in errors, and no later stage was executed.
C3_Original ==
    Returned => \A i \in DOMAIN trace :
        FailedAt(i) => (StraightToVerdict(i) /\ ~result.patch_applied)

\* C3 (amended): after a failed stage the verdict has tests_passed false, the
\* stage's error in errors, and no later stage was executed; patch_applied is
\* false when clone, checkout or the main patch failed, and stays true when the
\* test patch failed (the main patch was applied).
C3_Amended ==
    Returned => \A i \in DOMAIN trace :
        FailedAt(i) => /\ StraightToVerdict(i)
                       /\ result.patch_applied <=> (trace[i].arg = "test")

\* C3 (witness): a run returns after git apply rejected the test patch.
C3_Witness ==
    /\ Returned /\ result.patch_applied
    /\ \E i \in DOMAIN trace :
         /\ trace[i].op = "apply" /\ trace[i].arg = "test"
         /\ trace[i].outcome = "CalledProcessError"

\* C4: the temporary directory of a run is removed at most once, exists exactly
\* between its creation and that removal, and once the run has returned it has
\* been removed exactly once if it was created and does not exist.
C4_ReleasedOnce ==
    LET created == {i \in DOMAIN trace : trace[i].op = "mkdtemp" /\ trace[i].outcome = "ok"}
        removed == Positions({"cleanup"}) IN
    /\ Cardinality(removed) <= Cardinality(created)
    /\ Cardinality(created) <= 1
    /\ (workspace = "exists") <=> (created # {} /\ removed = {})
    /\ Returned => (workspace # "exists" /\ Cardinality(removed) = Cardinality(created))

\* C4 (witness): a run returns with the directory removed after writing the
\* patch file raised in the middle of the patch application.
C4_Witness ==
    /\ Returned /\ workspace = "removed"
    /\ \E i \in DOMAIN trace : trace[i].op = "write" /\ trace[i].outcome = "OSError"

\* the number of missing-field errors for field f in a list of errors
MissingCount(errs, f) ==
    Cardinality({i \in DOMAIN errs : errs[i] = Err("missing_field", f)})

\* C5 (as stated): for a record that lacks a required field,
\* validate_json_structure returns exactly one missing-field error per missing
\* field (and none for a present field), and validate_data_point starts no
\* evaluation: no directory is created and nothing is cloned.
C5_Claim ==
    (caller = "vdp" /\ pc # "vdp_start" /\ file = "ok" /\ data.missing # {}) =>
        /\ ~structure_call.raised
        /\ \A f \in FieldNames :
             MissingCount(structure_call.errors, f) = IF f \in data.missing THEN 1 ELSE 0
        /\ pc = "vdp_done" /\ ~vresult.evaluated
        /\ workspace = "none" /\ trace = <<>>

\* C6 (as stated): every persistent git apply of a patch, main or test, comes
\* after a successful dry-run (git apply --check) of the same patch in the run.
C6_Claim ==
    \A i \in DOMAIN trace :
        trace[i].op = "apply" =>
            \E j \in DOMAIN trace :
                /\ j < i
                /\ trace[j].op = "apply_check"
                /\ trace[j].arg = trace[i].arg
                /\ trace[j].outcome = "completed_zero"

BlockingOps == {"clone", "checkout", "apply_check", "apply", "test_f2p", "test_p2p"}

\* C7 (as stated): no blocking operation of an evaluation (clone, checkout,
\* dry-run, patch application, test execution) is left waiting for a subprocess
\* that never exits: its timeout ends it, so the evaluation never hangs.
C7_Claim ==
    /\ \A i \in DOMAIN trace : trace[i].op \in BlockingOps => trace[i].outcome # "blocked"
    /\ ~blocked

VerdictKeys ==
    {"evaluation_success", "patch_applied", "tests_passed", "fail_to_pass_results",
     "pass_to_pass_results", "errors", "logs"}

\* C8: no exception leaves run_swebench_evaluation; what it returns has all
\* seven keys of the verdict, and if anything failed in the run (file, key,
\* subprocess, test-set string, test) errors is not empty.
C8_NoEscape ==
    /\ ~escaped /\ pc # "raised"
    /\ Returned =>
         /\ DOMAIN result = VerdictKeys
         /\ (\E i \in DOMAIN trace : trace[i].outcome \notin OkOutcomes)
               => Len(result.errors) > 0

\* C8 (witness): a run returns a verdict with an error after json.loads raised
\* on the FAIL_TO_PASS string.
C8_Witness ==
    /\ Returned /\ Len(result.errors) > 0
    /\ \E i \in DOMAIN trace :
         trace[i].op = "load_tests" /\ trace[i].outcome = "JSONDecodeError"

\* the test outcomes held by the two result maps
Outcomes ==
    {result.fail_to_pass_results[t] : t \in DOMAIN result.fail_to_pass_results}
    \cup {result.pass_to_pass_results[t] : t \in DOMAIN result.pass_to_pass_results}

Count(b) == IF b THEN 1 ELSE 0

\* C9 (as stated): every test outcome has exactly one of passed, timeout and
\* error-present, and passed is false whenever timeout is true or error is set.
C9_Original ==
    \A o \in Outcomes :
        /\ Count(o.passed) + Count(o.timeout) + Count(o.error # "") = 1
        /\ (o.timeout \/ o.error # "") => ~o.passed

\* the last execution of test t by the loop that records op
LastRun(op, t) ==
    LET runs == {i \in DOMAIN trace : trace[i].op = op /\ trace[i].arg = t} IN
    trace[CHOOSE i \in runs : \A j \in runs : j <= i]

\* the outcome o recorded for a test process that ended as status
OutcomeMatches(o, status) ==
    /\ o.passed <=> (status = "completed_zero")
    /\ o.timeout <=> (status = "TimeoutExpired")
    /\ status \in {"TimeoutExpired", "OSError"} => o.error # ""
    /\ ~(o.passed /\ o.timeout)

\* C9 (amended): passed is true exactly when the test process exited with code
\* 0, timeout is true exactly when it timed out, the two are never both true,
\* and after a timeout or a launch failure passed is false and error is set.
\* (error otherwise holds the captured stderr: it may be set on a passed test,
\* and a test that failed with empty stderr has none of the three.)
C9_Amended ==
    /\ \A t \in DOMAIN result.fail_to_pass_results :
         OutcomeMatches(result.fail_to_pass_results[t], LastRun("test_f2p", t).outcome)
    /\ \A t \in DOMAIN result.pass_to_pass_results :
         OutcomeMatches(result.pass_to_pass_results[t], LastRun("test_p2p", t).outcome)

\* C9 (witness): the maps hold a timed-out test, a test that could not be
\* launched and a passed test that wrote to stderr.
C9_Witness ==
    /\ \E o \in Outcomes : o.timeout /\ ~o.passed /\ o.error # ""
    /\ \E o \in Outcomes : ~o.timeout /\ ~o.passed /\ o.error = "launch_error"
    /\ \E o \in Outcomes : o.passed /\ o.error # ""

\* the regression tests executed so far, in order
ExecutedRegression ==
    LET runs == SelectSeq(trace, LAMBDA e : e.op = "test_p2p") IN
    [i \in DOMAIN runs |-> runs[i].arg]

\* the record declares its regression tests as a sequence (native or JSON)
DeclaresRegression ==
    Present(data, "PASS_TO_PASS") /\ data.P2P.form \in {"list", "json_list"}

IsPrefix(a, b) == Len(a) <= Len(b) /\ \A i \in DOMAIN a : a[i] = b[i]

\* C10: the regression tests executed are always a prefix of the first
\* min(n, 5) declared ones, in declared order, and are exactly those once the
\* regression stage is over; none beyond the fifth is executed.
C10_FirstFive ==
    DeclaresRegression =>
        LET declared == data.P2P.val
            n == Len(declared)
            m == IF n < 5 THEN n ELSE 5
            expected == [i \in 1..m |-> declared[i]] IN
        /\ IsPrefix(ExecutedRegression, expected)
        /\ (pc = "reduce" \/ (Returned /\ ReachedReduction))
              => ExecutedRegression = expected

\* C10 (witness): a run with more than five declared regression tests returns
\* after executing five of them.
C10_Witness ==
    /\ DeclaresRegression /\ Len(data.P2P.val) > 5
    /\ Returned /\ ReachedReduction
    /\ Len(ExecutedRegression) = 5

\* the tests executed so far by the loop that records op, in order
Executed(op) ==
    LET runs == SelectSeq(trace, LAMBDA e : e.op = op) IN
    [i \in DOMAIN runs |-> runs[i].arg]

\* the sequence a test-set field declares (a missing field reads as '[]')
DeclaredSeq(f) ==
    IF ~Present(data, f) THEN <<>>
    ELSE IF f = "FAIL_TO_PASS" THEN data.F2P.val ELSE data.P2P.val

\* both test-set fields are sequences (native or JSON) or absent
DeclaresSequences ==
    /\ Present(data, "FAIL_TO_PASS") => data.F2P.form \in {"list", "json_list"}
    /\ Present(data, "PASS_TO_PASS") => data.P2P.form \in {"list", "json_list"}

\* both patches applied: the main patch, and the test patch when the record has one
BothPatchesApplied ==
    /\ result.patch_applied
    /\ \A i \in DOMAIN trace : trace[i].op \in StageOps => trace[i].outcome \in OkOutcomes
    /\ HasTestPatch(data) =>
          \E i \in DOMAIN trace : trace[i].op = "apply" /\ trace[i].arg = "test"

FirstN(l, n) == [i \in 1..(IF Len(l) < n THEN Len(l) ELSE n) |-> l[i]]

RangeOf(l) == {l[i] : i \in DOMAIN l}

\* C11: in a returned run where both patches applied and the record declares its
\* two test sets as sequences, every declared acceptance test and every one of
\* the first five regression tests was executed, in order, and has an entry in
\* its result map, whatever earlier tests did; a test that timed out or could
\* not be launched is recorded with passed = false.
C11_AllTestsRun ==
    (Returned /\ BothPatchesApplied /\ DeclaresSequences) =>
        /\ Executed("test_f2p") = DeclaredSeq("FAIL_TO_PASS")
        /\ Executed("test_p2p") = FirstN(DeclaredSeq("PASS_TO_PASS"), 5)
        /\ DOMAIN result.fail_to_pass_results = RangeOf(DeclaredSeq("FAIL_TO_PASS"))
        /\ DOMAIN result.pass_to_pass_results
              = RangeOf(FirstN(DeclaredSeq("PASS_TO_PASS"), 5))
        /\ \A t \in DOMAIN result.pass_to_pass_results :
              LastRun("test_p2p", t).outcome \in {"TimeoutExpired", "OSError"}
                 => ~result.pass_to_pass_results[t].passed
        /\ \A t \in DOMAIN result.fail_to_pass_results :
              LastRun("test_f2p", t).outcome \in {"TimeoutExpired", "OSError"}
                 => ~result.fail_to_pass_results[t].passed

\* C11 (witness): a returned run in which the first regression test timed out,
\* the second could not be launched and a third was still executed.
C11_Witness ==
    /\ Returned /\ BothPatchesApplied /\ DeclaresSequences
    /\ \E i, j, k \in DOMAIN trace :
         /\ i < j /\ j < k
         /\ trace[i].op = "test_p2p" /\ trace[i].outcome = "TimeoutExpired"
         /\ trace[j].op = "test_p2p" /\ trace[j].outcome = "OSError"
         /\ trace[k].op = "test_p2p"

\* the lines of errors that name test t as failed in the set of kind k
LinesFor(k, t) == SelectSeq(result.errors, LAMBDA e : e = Err(k, t))

\* test t is a failing test of the result map m
FailingIn(m, t) == t \in DOMAIN m /\ ~m[t].passed

\* C12: in a run that reached the reduction (both patches applied), patch_applied
\* is true and errors holds exactly one line per failing test, naming the test
\* and its set, and nothing else: one line for each failed entry of the two
\* result maps, no line for any other test, and no line of another kind.
C12_Claim ==
    (Returned /\ ReachedReduction) =>
        /\ result.patch_applied
        /\ \A i \in DOMAIN result.errors :
              result.errors[i].kind \in {"f2p_failed", "p2p_failed"}
        /\ \A t \in TestIdSet :
              /\ Len(LinesFor("f2p_failed", t))
                    = IF FailingIn(result.fail_to_pass_results, t) THEN 1 ELSE 0
              /\ Len(LinesFor("p2p_failed", t))
                    = IF FailingIn(result.pass_to_pass_results, t) THEN 1 ELSE 0

\* validate_data_point has called the two checkers on the record it read
Checked == caller = "vdp" /\ pc # "vdp_start" /\ file = "ok"

IsBlank(patch) == \A i \in DOMAIN patch : patch[i] = "blank"

\* the diff structure the specification asks for: a diff header, a pair of
\* old-file and new-file markers, a hunk range
HasDiffStructure(patch) ==
    /\ AnyLine(patch, {"diff"})
    /\ AnyLine(patch, {"old"}) /\ AnyLine(patch, {"new"})
    /\ AnyLine(patch, {"hunk"})

\* the errors validate_patch_format reported for the main patch
MainPatchErrors == SelectSeq(vresult.errors, LAMBDA e :
                       e.kind \in {"empty_patch", "no_diff_markers", "no_changes"} /\ e.arg = "")

\* C13: for a record whose patch was checked, a blank patch text yields only
\* the empty-patch error, and a non-blank text yields the combined structure
\* error exactly when it lacks a diff header, a '---' line, a '+++' line or a
\* hunk range.
C13_Claim ==
    (Checked /\ ~structure_call.raised /\ Present(data, "patch")) =>
        IF IsBlank(data.patch)
        THEN MainPatchErrors = <<Err("empty_patch", "")>>
        ELSE Len(SelectSeq(MainPatchErrors, LAMBDA e : e.kind = "no_diff_markers"))
                = IF HasDiffStructure(data.patch) THEN 0 ELSE 1

\* C14: validate_json_structure returns an error list for every record it is
\* called on: the call never ends in an exception.
C14_Claim == Checked => ~structure_call.raised

\* the record was read and passed the schema check
SchemaPassed == Checked /\ ~structure_call.raised /\ structure_call.errors = <<>>

\* C15: for a record that passes the schema check, validate_data_point with
\* run_evaluation = true goes on to the evaluation whatever validate_patch_format
\* reported, and when it returns the evaluation was run, the patch-syntax errors
\* head the errors list, and the record is not valid when there are any.
C15_MalformedPatchStillEvaluated ==
    (SchemaPassed /\ run_evaluation) =>
        /\ pc = "vdp_done" => vresult.evaluated /\ trace # <<>>
        /\ IsPrefix(PatchErrors(data), vresult.errors)
        /\ (pc = "vdp_done" /\ PatchErrors(data) # <<>>) => ~vresult.valid

\* C15 (witness): a record with a malformed patch text was evaluated, the
\* evaluation succeeded, and the record is reported not valid with exactly the
\* patch-syntax errors.
C15_Witness ==
    /\ SchemaPassed /\ run_evaluation /\ pc = "vdp_done"
    /\ PatchErrors(data) # <<>>
    /\ vresult.evaluated /\ result.evaluation_success
    /\ ~vresult.valid /\ vresult.errors = PatchErrors(data)

\* C19: in every result validate_data_point returns, valid holds exactly when
\* the errors list is empty, and valid with run_evaluation = true implies that
\* the evaluation was run and its verdict has evaluation_success = true.
C19_ValidMeansEvaluated ==
    (caller = "vdp" /\ pc = "vdp_done") =>
        /\ vresult.valid <=> (vresult.errors = <<>>)
        /\ (vresult.valid /\ run_evaluation) =>
              vresult.evaluated /\ result.evaluation_success

\* C19 (witness): a record reported valid after an evaluation that executed a
\* test.
C19_Witness ==
    /\ caller = "vdp" /\ pc = "vdp_done" /\ run_evaluation
    /\ vresult.valid /\ vresult.evaluated
    /\ \E i \in DOMAIN trace : trace[i].op \in TestOps

\* C18: every verdict run_swebench_evaluation returns has either
\* evaluation_success with patch_applied, tests_passed and no errors, or no
\* evaluation_success and at least one error.
C18_SuccessExplained ==
    Returned =>
        /\ result.evaluation_success =>
              result.patch_applied /\ result.tests_passed /\ result.errors = <<>>
        /\ ~result.evaluation_success => result.errors # <<>>

\* C18 (witness): a verdict of the reduction in which every map entry passed and
\* tests_passed holds, and which is unsuccessful because an earlier execution
\* of a repeated test left an error line.
C18_Witness ==
    /\ Returned /\ ReachedReduction
    /\ result.patch_applied /\ result.tests_passed /\ MapEntriesPassed(result)
    /\ ~result.evaluation_success /\ result.errors # <<>>

\* the test-failure lines of the verdict
TestFailureLines == SelectSeq(result.errors, LAMBDA e : e.kind \in {"f2p_failed", "p2p_failed"})

\* the number of entries with passed = false in the result map m
FailedEntries(m) == Cardinality({t \in DOMAIN m : ~m[t].passed})

\* C20: in a run that reached the reduction, tests_passed is false exactly when
\* errors holds a test-failure line, and there are as many test-failure lines as
\* entries with passed = false in the two result maps.
C20_Claim ==
    (Returned /\ ReachedReduction) =>
        /\ ~result.tests_passed <=> (TestFailureLines # <<>>)
        /\ Len(TestFailureLines) = FailedEntries(result.fail_to_pass_results)
                                     + FailedEntries(result.pass_to_pass_results)

\* C16: whatever the interleaving of the evaluations, no two of them hold the
\* same workspace directory at the same time, every directory held was created
\* by its holder, every file under a directory was written by the evaluation
\* that created it, and no evaluation has read or written under a directory of
\* another one.
C16_Isolated ==
    /\ \A e1, e2 \in Evals : (e1 # e2 /\ held[e1] # 0) => held[e1] # held[e2]
    /\ \A e \in Evals : held[e] # 0 => owner[held[e]] = e
    /\ \A d \in DirNames : \A f \in files[d] : f.by = owner[d]
    /\ ~foreign

\* C16 (witness): two evaluations hold a workspace each at the same time, both
\* with their clone and their main patch written.
C16_Witness ==
    \E e1, e2 \in Evals :
        /\ e1 # e2 /\ held[e1] # 0 /\ held[e2] # 0
        /\ \A e \in {e1, e2} :
              {[name |-> "repo", by |-> e], [name |-> "main.patch", by |-> e]}
                 \subseteq files[held[e]]

\* the reducer has given its verdict
Reduced == rpc \in {"reduced", "reduced_again"}

HasError(kind) == \E i \in DOMAIN rverdict.errors : rverdict.errors[i].kind = kind

\* C17: for a report of shape (a), a target in resolved_ids gives
\* patch_applied, tests_resolved and no errors; in error_ids a patch-not-applied
\* error; in completed_ids only, applied and not resolved; in none of the three
\* an instance-not-found error; a report of neither recognized shape gives an
\* unrecognized-format error and no successful verdict.
C17_ReportReduction ==
    Reduced =>
        /\ report.shape = "ids" =>
              /\ target \in report.resolved_ids =>
                    rverdict = Verdict(TRUE, TRUE, <<>>)
              /\ target \in report.error_ids =>
                    HasError("patch_not_applied") /\ ~rverdict.patch_applied
                       /\ ~rverdict.tests_resolved
              /\ target \in report.completed_ids \ (report.resolved_ids \cup report.error_ids) =>
                    rverdict.patch_applied /\ ~rverdict.tests_resolved
              /\ target \notin (report.resolved_ids \cup report.error_ids
                                   \cup report.completed_ids) =>
                    HasError("instance_not_found") /\ ~rverdict.tests_resolved
        /\ report.shape \notin {"ids", "entries"} =>
              HasError("unrecognized_report_format")
                 /\ ~(rverdict.patch_applied /\ rverdict.tests_resolved)

\* C17 (witness): the scenario of the specification: resolved_ids = ["X"] and
\* target X give patch_applied, tests_resolved and no errors.
C17_Witness ==
    /\ Reduced /\ report.shape = "ids" /\ target = "X"
    /\ report.resolved_ids = {"X"}
    /\ rverdict = Verdict(TRUE, TRUE, <<>>)

====
